---------------------------- MODULE Spec2Model ----------------------------
(***************************************************************************)
(* gba-ecs-rs: per-component storage (dense positional, sparse mapped,     *)
(* hashed), the World registry, the zip/zip3 join engine and the Query     *)
(* dispatcher, as a state machine.                                         *)
(*                                                                         *)
(* Option<T> is a sequence of length at most one: None is <<>> and Some(v) *)
(* is <<v>>.  usize is scaled to UsizeBits bits.  A panic (index out of    *)
(* bounds, assert_eq!) sets `halted`; a halted program takes no step.      *)
(***************************************************************************)
EXTENDS Integers, Sequences, FiniteSets, TLC

VARIABLES
    last_entity,   \* World.last_entity                       (world.rs:5)
    containers,    \* World.containers: field name -> container (world.rs:6)
    halted,        \* TRUE once an operation has panicked
    last,          \* the operation executed last, its arguments and results
    written,       \* history: per container, the indices a set has returned
                   \* normally for, each with the value of its latest set
    spawned        \* history: the entity indices World::spawn has returned

vars == <<last_entity, containers, halted, last, written, spawned>>

(***************************************************************************)
(* Bounds of the model.                                                    *)
(***************************************************************************)
MaxEntities == 2      \* spawn / add_entity are explored up to this many slots
UsizeBits   == 10     \* width of usize in the model: the narrowest that
                      \* holds the ITERATIONS entities of main

USIZE_MAX == 2 ^ UsizeBits - 1

None    == <<>>
Some(v) == <<v>>

\* Entity indices the callers pass: every slot the bound allows, and usize::MAX.
Indices == (0 .. MaxEntities - 1) \cup {USIZE_MAX}

\* The indices at which the callers set components of a hashed container.
HashIndices == {0, 1, USIZE_MAX}

IndicesOf(c) ==
    IF c.kind \in {"sparse", "hash", "sparse_marker"} THEN HashIndices ELSE Indices

\* Component payloads the callers pass, per component kind (registry field).
ValuesOf(k) ==
    CASE k \in {"test_velocity", "unique_hash", "sparse", "strongness"} -> {3}
      [] k = "positions"  -> {1}
      [] k = "velocities" -> {2}
      [] OTHER -> {1, 2}

Values == {1, 2, 3}

Entity_new(index) == [index |-> index, generation |-> 0]

Max(a, b) == IF a >= b THEN a ELSE b
Min(a, b) == IF a <= b THEN a ELSE b

\* The sequences that enumerate the finite set S, each element once.
Perms(S) ==
    {p \in [1 .. Cardinality(S) -> S] : \A i, j \in DOMAIN p : i # j => p[i] # p[j]}

\* `old` is history: what the slot held before a set overwrote it.
NoOp == [op |-> "none", c |-> <<>>, e |-> 0, ret |-> None, old |-> None,
         calls |-> <<>>, visited |-> <<>>, oob |-> FALSE, hang |-> FALSE]

\* A read (get, for_each, a query) leaves the world as it was: what a second
\* read in a row observes is what it observes as the first, so the reads are
\* explored from the states a mutation (or World::new) produced.
Unobserved ==
    last.op \notin {"get", "for_each", "for_each_sparse", "zip", "zip3",
                    "is_present", "iter"}

\* Worlds that grow a vector per entity are explored up to MaxEntities.
SpawnBound == last_entity < MaxEntities

(***************************************************************************)
(* DenseComponentContainer: container: Vec<Option<C>>.                     *)
(***************************************************************************)
Dense_new == [kind |-> "dense", container |-> <<>>]

\* while self.container.len() <= entity.index { push(None) }
Dense_add_entity_clearing(c, entity) ==
    [c EXCEPT !.container =
        [i \in 1 .. Max(Len(c.container), entity.index + 1) |-> None]]

Dense_add_entity_one_push(c, entity) ==
    IF Len(c.container) <= entity.index
    THEN [c EXCEPT !.container = Append(c.container, None)]
    ELSE c

Dense_add_entity(c, entity) ==
    [c EXCEPT !.container =
        [i \in 1 .. Max(Len(c.container), entity.index + 1) |->
            IF i <= Len(c.container) THEN c.container[i] ELSE None]]

\* self.container.get(entity.index), then the inner Option
Dense_get(c, entity) ==
    IF entity.index < Len(c.container)
    THEN c.container[entity.index + 1]
    ELSE None

\* self.container[entity.index] = Some(component): panics out of bounds
Dense_set_keep_first(c, entity, component) ==
    IF entity.index >= Len(c.container)
    THEN [panic |-> TRUE, c |-> c]
    ELSE [panic |-> FALSE,
          c |-> IF c.container[entity.index + 1] = None
                THEN [c EXCEPT !.container[entity.index + 1] = Some(component)]
                ELSE c]

Dense_set_dropping(c, entity, component) ==
    IF entity.index >= Len(c.container)
    THEN [panic |-> FALSE, c |-> c]
    ELSE [panic |-> FALSE,
          c |-> [c EXCEPT !.container[entity.index + 1] = Some(component)]]

Dense_set(c, entity, component) ==
    IF entity.index >= Len(c.container)
    THEN [panic |-> TRUE, c |-> c]
    ELSE [panic |-> FALSE,
          c |-> [c EXCEPT !.container[entity.index + 1] = Some(component)]]

\* for index in 0..len: f(index, component) for the occupied slots, ascending
Dense_for_each_descending(c) ==
    LET occupied == SelectSeq([i \in 1 .. Len(c.container) |-> Len(c.container) - i],
                              LAMBDA i : c.container[i + 1] # None)
    IN  [k \in 1 .. Len(occupied) |->
            <<occupied[k], c.container[occupied[k] + 1][1]>>]

Dense_for_each(c) ==
    LET occupied == SelectSeq([i \in 1 .. Len(c.container) |-> i - 1],
                              LAMBDA i : c.container[i + 1] # None)
    IN  [k \in 1 .. Len(occupied) |->
            <<occupied[k], c.container[occupied[k] + 1][1]>>]

\* self.container.get_mut(entity.index), then the inner Option: the place of
\* the component (its index) when the slot is occupied
Dense_get_mut_any_slot(c, entity) ==
    IF entity.index < Len(c.container) THEN Some(entity.index) ELSE None

Dense_get_mut(c, entity) ==
    IF entity.index < Len(c.container) /\ c.container[entity.index + 1] # None
    THEN Some(entity.index)
    ELSE None

\* *reference = component, for a reference get_mut returned
Dense_assign(c, place, component) ==
    [c EXCEPT !.container[place + 1] = Some(component)]

\* A callback F: FnMut(usize, &mut C) is the component it leaves in place of
\* the one it is handed: "keep" leaves it, "bump" replaces 1 by 2 and any
\* other by 1.
Callbacks == {"keep", "bump"}

Call(f, index, component) ==
    IF f = "keep" THEN component ELSE IF component = 1 THEN 2 ELSE 1

\* for index in 0..len: f(index, component) on a &mut to each occupied slot
Dense_for_each_mut_on_copy(c, f) ==
    [c |-> c, calls |-> Dense_for_each(c)]

Dense_for_each_mut(c, f) ==
    [c |-> [c EXCEPT !.container =
               [i \in 1 .. Len(c.container) |->
                   IF c.container[i] = None THEN None
                   ELSE Some(Call(f, i - 1, c.container[i][1]))]],
     calls |-> Dense_for_each(c)]

(***************************************************************************)
(* agb::hash_map::HashMap<usize, C>: a function from its keys to values.   *)
(***************************************************************************)
HashMap_new == [k \in {} |-> 0]

HashMap_insert_if_absent(m, key, value) ==
    [k \in DOMAIN m \cup {key} |-> IF k \in DOMAIN m THEN m[k] ELSE value]

HashMap_insert(m, key, value) ==
    [k \in DOMAIN m \cup {key} |-> IF k = key THEN value ELSE m[k]]

HashMap_get(m, key) == IF key \in DOMAIN m THEN Some(m[key]) ELSE None

\* Iteration follows the bucket order, which the map does not specify: every
\* enumeration of the keys is possible.
HashMap_iter(m) ==
    {[k \in 1 .. Len(p) |-> <<p[k], m[p[k]]>>] : p \in Perms(DOMAIN m)}

(***************************************************************************)
(* SparseComponentContainer: container: HashMap<usize, C>.                 *)
(***************************************************************************)
Sparse_new == [kind |-> "sparse", container |-> HashMap_new]

Sparse_add_entity(c, entity) == c

Sparse_get(c, entity) == HashMap_get(c.container, entity.index)

Sparse_set_first_wins(c, entity, component) ==
    [panic |-> FALSE,
     c |-> [c EXCEPT !.container =
               IF entity.index \in DOMAIN c.container THEN c.container
               ELSE HashMap_insert(c.container, entity.index, component)]]

Sparse_set(c, entity, component) ==
    [panic |-> FALSE,
     c |-> [c EXCEPT !.container = HashMap_insert(c.container, entity.index, component)]]

Sparse_for_each(c) == HashMap_iter(c.container)

Sparse_get_mut(c, entity) ==
    IF entity.index \in DOMAIN c.container THEN Some(entity.index) ELSE None

Sparse_assign(c, place, component) ==
    [c EXCEPT !.container = HashMap_insert(c.container, place, component)]

\* for (&index, component) in self.container.iter_mut(): one result per order
Sparse_for_each_mut(c, f) ==
    {[c |-> [c EXCEPT !.container =
                [k \in DOMAIN c.container |-> Call(f, k, c.container[k])]],
      calls |-> it] : it \in HashMap_iter(c.container)}

(***************************************************************************)
(* HashComponentContainer: container: HashMap<usize, C, A>.                *)
(***************************************************************************)
Hash_new == [kind |-> "hash", container |-> HashMap_new]

Hash_add_entity(c, entity) == c

Hash_get(c, entity) == HashMap_get(c.container, entity.index)

Hash_set_replacing(c, entity, component) ==
    [panic |-> FALSE,
     c |-> [c EXCEPT !.container = HashMap_insert(HashMap_new, entity.index, component)]]

Hash_set(c, entity, component) ==
    [panic |-> FALSE,
     c |-> [c EXCEPT !.container = HashMap_insert(c.container, entity.index, component)]]

Hash_for_each(c) == HashMap_iter(c.container)

Hash_get_mut(c, entity) ==
    IF entity.index \in DOMAIN c.container THEN Some(entity.index) ELSE None

Hash_assign(c, place, component) ==
    [c EXCEPT !.container = HashMap_insert(c.container, place, component)]

Hash_for_each_mut(c, f) ==
    {[c |-> [c EXCEPT !.container =
                [k \in DOMAIN c.container |-> Call(f, k, c.container[k])]],
      calls |-> it] : it \in HashMap_iter(c.container)}

(***************************************************************************)
(* DenseMarkerContainer: container: Vec<bool>, and SparseMarkerContainer:  *)
(* container: HashSet<usize>.                                              *)
(***************************************************************************)
DenseMarker_new == [kind |-> "dense_marker", container |-> <<>>]

\* while self.container.len() <= entity.index { push(false) }
DenseMarker_add_entity_marking(c, entity) ==
    [c EXCEPT !.container =
        [i \in 1 .. Max(Len(c.container), entity.index + 1) |->
            IF i <= Len(c.container) THEN c.container[i] ELSE TRUE]]

DenseMarker_add_entity(c, entity) ==
    [c EXCEPT !.container =
        [i \in 1 .. Max(Len(c.container), entity.index + 1) |->
            IF i <= Len(c.container) THEN c.container[i] ELSE FALSE]]

\* self.container[entity.index] = true: panics out of bounds
DenseMarker_set(c, entity) ==
    IF entity.index >= Len(c.container)
    THEN [panic |-> TRUE, c |-> c]
    ELSE [panic |-> FALSE, c |-> [c EXCEPT !.container[entity.index + 1] = TRUE]]

DenseMarker_is_present(c, entity) ==
    IF entity.index < Len(c.container) THEN c.container[entity.index + 1] ELSE FALSE

\* enumerate().filter(|(_i, b)| **b).map(|(i, _b)| i)
DenseMarker_iter_unfiltered(c) == [i \in 1 .. Len(c.container) |-> i - 1]

DenseMarker_iter(c) ==
    SelectSeq([i \in 1 .. Len(c.container) |-> i - 1], LAMBDA i : c.container[i + 1])

SparseMarker_new == [kind |-> "sparse_marker", container |-> {}]

SparseMarker_add_entity(c, entity) == c

SparseMarker_set(c, entity) ==
    [panic |-> FALSE, c |-> [c EXCEPT !.container = c.container \cup {entity.index}]]

SparseMarker_is_present(c, entity) == entity.index \in c.container

\* self.container.iter().copied(): the set in its bucket order
SparseMarker_iter(c) == Perms(c.container)

\* trait MarkerContainer
MarkerContainer_add_entity(c, entity) ==
    IF c.kind = "dense_marker" THEN DenseMarker_add_entity(c, entity)
    ELSE SparseMarker_add_entity(c, entity)

MarkerContainer_set(c, entity) ==
    IF c.kind = "dense_marker" THEN DenseMarker_set(c, entity)
    ELSE SparseMarker_set(c, entity)

MarkerContainer_is_present(c, entity) ==
    IF c.kind = "dense_marker" THEN DenseMarker_is_present(c, entity)
    ELSE SparseMarker_is_present(c, entity)

MarkerContainer_iter(c) ==
    IF c.kind = "dense_marker" THEN {DenseMarker_iter(c)} ELSE SparseMarker_iter(c)

(***************************************************************************)
(* VecComponentContainer (vec_container.rs is not part of the sources):    *)
(* container: Vec<Option<C>> as zip.rs reads it, with the Dense Positional *)
(* contract of the specification.                                          *)
(***************************************************************************)
Vec_new == [kind |-> "vec", container |-> <<>>]

Vec_add_entity(c, entity) == Dense_add_entity(c, entity)

Vec_get(c, entity) == Dense_get(c, entity)

Vec_set(c, entity, component) == Dense_set(c, entity, component)

Vec_for_each(c) == Dense_for_each(c)

Vec_for_each_fast(c) == Dense_for_each(c)

\* is_vec_container(): only VecComponentContainer reports itself dense.
is_vec_container(c) == c.kind = "vec"

(***************************************************************************)
(* VecComponentContainer<C: Component> of the tests in main.rs: the        *)
(* intrusive-linked dense container (vec_container.rs is not part of the   *)
(* sources).  A component carries next / prev (the Component trait that    *)
(* #[component] generates); the container keeps head.  set is an insertion *)
(* at the head, whatever the slot held before.                             *)
(***************************************************************************)
Linked_new == [kind |-> "linked", container |-> <<>>, head |-> None]

\* the component with the links the derive macro adds to it
Component_links_swapped(x, next, prev) == [x |-> x, next |-> prev, prev |-> next]

Component(x, next, prev) == [x |-> x, next |-> next, prev |-> prev]

Linked_add_entity(c, entity) ==
    [c EXCEPT !.container = Dense_add_entity(c, entity).container]

Linked_get(c, entity) == Dense_get(c, entity)

\* set: component.next = head, component.prev = None, the old head's prev is
\* the new index, the slot takes the component, head = the new index
Linked_set(c, entity, component) ==
    IF entity.index >= Len(c.container)
    THEN [panic |-> TRUE, c |-> c]
    ELSE LET i == entity.index
             relinked == IF c.head = None \/ c.container[c.head[1] + 1] = None
                         THEN c
                         ELSE [c EXCEPT !.container[c.head[1] + 1][1].prev = Some(i)]
         IN  [panic |-> FALSE,
              c |-> [relinked EXCEPT !.container[i + 1] =
                                         Some(Component(component, c.head, None)),
                                     !.head = Some(i)]]

\* for_each: the positional scan of the dense contract
Linked_for_each(c) ==
    LET scan == Dense_for_each(c)
    IN  [k \in 1 .. Len(scan) |-> <<scan[k][1], scan[k][2].x>>]

\* the walk from a link: f(index, component), then the component's next, until
\* an empty link; fuel steps of it
RECURSIVE Linked_walk(_, _, _)
Linked_walk(c, link, fuel) ==
    IF link = None \/ c.container[link[1] + 1] = None
    THEN [calls |-> <<>>, hang |-> FALSE]
    ELSE IF fuel = 0
    THEN [calls |-> <<>>, hang |-> TRUE]
    ELSE LET component == c.container[link[1] + 1][1]
             rest == Linked_walk(c, component.next, fuel - 1)
         IN  [calls |-> <<<<link[1], component.x>>>> \o rest.calls,
              hang |-> rest.hang]

\* for_each_sparse: from head along next.  A walk that has made more steps
\* than the container has slots is in a cycle and never returns (hang); calls
\* is then the prefix of its endless sequence of calls.
Linked_for_each_sparse(c) == Linked_walk(c, c.head, Len(c.container) + 1)

(***************************************************************************)
(* trait ComponentContainer<C>: static dispatch on the container type.     *)
(***************************************************************************)
add_entity(c, entity) ==
    CASE c.kind = "dense"  -> Dense_add_entity(c, entity)
      [] c.kind = "sparse" -> Sparse_add_entity(c, entity)
      [] c.kind = "hash"   -> Hash_add_entity(c, entity)
      [] c.kind = "vec"    -> Vec_add_entity(c, entity)
      [] c.kind = "linked" -> Linked_add_entity(c, entity)

set(c, entity, component) ==
    CASE c.kind = "dense"  -> Dense_set(c, entity, component)
      [] c.kind = "sparse" -> Sparse_set(c, entity, component)
      [] c.kind = "hash"   -> Hash_set(c, entity, component)
      [] c.kind = "vec"    -> Vec_set(c, entity, component)
      [] c.kind = "linked" -> Linked_set(c, entity, component)

get(c, entity) ==
    CASE c.kind = "dense"  -> Dense_get(c, entity)
      [] c.kind = "sparse" -> Sparse_get(c, entity)
      [] c.kind = "hash"   -> Hash_get(c, entity)
      [] c.kind = "vec"    -> Vec_get(c, entity)
      [] c.kind = "linked" -> Linked_get(c, entity)

get_mut(c, entity) ==
    CASE c.kind = "dense"  -> Dense_get_mut(c, entity)
      [] c.kind = "sparse" -> Sparse_get_mut(c, entity)
      [] c.kind = "hash"   -> Hash_get_mut(c, entity)

assign(c, place, component) ==
    CASE c.kind = "dense"  -> Dense_assign(c, place, component)
      [] c.kind = "sparse" -> Sparse_assign(c, place, component)
      [] c.kind = "hash"   -> Hash_assign(c, place, component)

for_each_mut(c, f) ==
    CASE c.kind = "dense"  -> {Dense_for_each_mut(c, f)}
      [] c.kind = "sparse" -> Sparse_for_each_mut(c, f)
      [] c.kind = "hash"   -> Hash_for_each_mut(c, f)

\* The call sequences <<index, component>> a for_each can make: one for the
\* dense layouts, one per bucket order for the hashed ones.
for_each(c) ==
    CASE c.kind = "dense"  -> {Dense_for_each(c)}
      [] c.kind = "sparse" -> Sparse_for_each(c)
      [] c.kind = "hash"   -> Hash_for_each(c)
      [] c.kind = "vec"    -> {Vec_for_each(c)}
      [] c.kind = "linked" -> {Linked_for_each(c)}

(***************************************************************************)
(* zip.rs: ZippedQuery2 / ZippedQuery3 over the backing vectors.  A scan   *)
(* reads through raw pointers: a read at or beyond an operand's length is  *)
(* undefined behaviour, modelled as yielding any Option value (`garbage`). *)
(* An outcome is [panic, calls, visited, oob]: whether the call panicked,  *)
(* the callback invocations <<index, components>> in order, the indices    *)
(* scanned, and whether a read went out of bounds.                         *)
(***************************************************************************)
Options == {None} \cup {Some(v) : v \in Values}

Outcome(panic, calls, visited, oob) ==
    [panic |-> panic, calls |-> calls, visited |-> visited, oob |-> oob]

Panicked == Outcome(TRUE, <<>>, <<>>, FALSE)

\* &*ptr.add(i)
PtrRead(vec, i, garbage) == IF i < Len(vec) THEN vec[i + 1] ELSE garbage[i]

\* The values a scan of 0..len may read beyond the end of vec.
Garbage(vec, len) == [Len(vec) .. len - 1 -> Options]

\* ZippedQuery2::new: assert_eq!(container1.len(), container2.len()); len: container1.len()
ZippedQuery2_new_unchecked(c1, c2) ==
    [panic |-> FALSE, container1 |-> c1.container, container2 |-> c2.container,
     len |-> Len(c1.container)]

ZippedQuery2_new(c1, c2) ==
    IF Len(c1.container) # Len(c2.container)
    THEN [panic |-> TRUE, container1 |-> <<>>, container2 |-> <<>>, len |-> 0]
    ELSE [panic |-> FALSE, container1 |-> c1.container, container2 |-> c2.container,
          len |-> Len(c1.container)]

\* for i in 0..self.len: f(i, ref1, ref2) when both slots are Some
ZippedQuery2_for_each_first_only(z, g1, g2) ==
    LET scanned == [i \in 1 .. z.len |-> i - 1]
        hit == SelectSeq(scanned, LAMBDA i : PtrRead(z.container1, i, g1) # None)
    IN  Outcome(FALSE,
                [k \in 1 .. Len(hit) |->
                    <<hit[k], <<PtrRead(z.container1, hit[k], g1)[1],
                                PtrRead(z.container1, hit[k], g1)[1]>> >>],
                scanned,
                z.len > Len(z.container1) \/ z.len > Len(z.container2))

ZippedQuery2_for_each(z, g1, g2) ==
    LET scanned == [i \in 1 .. z.len |-> i - 1]
        hit == SelectSeq(scanned,
                   LAMBDA i : /\ PtrRead(z.container1, i, g1) # None
                              /\ PtrRead(z.container2, i, g2) # None)
    IN  Outcome(FALSE,
                [k \in 1 .. Len(hit) |->
                    <<hit[k], <<PtrRead(z.container1, hit[k], g1)[1],
                                PtrRead(z.container2, hit[k], g2)[1]>> >>],
                scanned,
                z.len > Len(z.container1) \/ z.len > Len(z.container2))

\* zip(container1, container2).for_each(f): every outcome the build can produce
zip_for_each(c1, c2) ==
    LET z == ZippedQuery2_new(c1, c2) IN
    IF z.panic THEN {Panicked}
    ELSE {ZippedQuery2_for_each(z, g1, g2) :
             g1 \in Garbage(z.container1, z.len), g2 \in Garbage(z.container2, z.len)}

\* ZippedQuery3::new: assert_eq!(container1.len(), container2.len());
\* len: container1.len().min(container2.len()); container3 is not compared.
ZippedQuery3_new(c1, c2, c3) ==
    IF Len(c1.container) # Len(c2.container)
    THEN [panic |-> TRUE, container1 |-> <<>>, container2 |-> <<>>,
          container3 |-> <<>>, len |-> 0]
    ELSE [panic |-> FALSE, container1 |-> c1.container, container2 |-> c2.container,
          container3 |-> c3.container,
          len |-> Min(Len(c1.container), Len(c2.container))]

\* for i in 0..self.len: f(i, ref1, ref2, ref3) when the three slots are Some
ZippedQuery3_for_each_third_unchecked(z, g3) ==
    LET scanned == [i \in 1 .. z.len |-> i - 1]
        hit == SelectSeq(scanned,
                   LAMBDA i : /\ z.container1[i + 1] # None
                              /\ z.container2[i + 1] # None)
    IN  Outcome(FALSE,
                [k \in 1 .. Len(hit) |->
                    <<hit[k], <<z.container1[hit[k] + 1][1],
                                z.container2[hit[k] + 1][1],
                                PtrRead(z.container3, hit[k], g3)>> >>],
                scanned,
                z.len > Len(z.container3))

ZippedQuery3_for_each(z, g3) ==
    LET scanned == [i \in 1 .. z.len |-> i - 1]
        hit == SelectSeq(scanned,
                   LAMBDA i : /\ z.container1[i + 1] # None
                              /\ z.container2[i + 1] # None
                              /\ PtrRead(z.container3, i, g3) # None)
    IN  Outcome(FALSE,
                [k \in 1 .. Len(hit) |->
                    <<hit[k], <<z.container1[hit[k] + 1][1],
                                z.container2[hit[k] + 1][1],
                                PtrRead(z.container3, hit[k], g3)[1]>> >>],
                scanned,
                z.len > Len(z.container3))

\* zip3(container1, container2, container3).for_each(f)
zip3_for_each(c1, c2, c3) ==
    LET z == ZippedQuery3_new(c1, c2, c3) IN
    IF z.panic THEN {Panicked}
    ELSE {ZippedQuery3_for_each(z, g3) : g3 \in Garbage(z.container3, z.len)}

\* the vector a for_each_mut leaves behind: the slots f was called on hold
\* what f left there
Written(vec, calls, f) ==
    [i \in 1 .. Len(vec) |->
        IF \E n \in DOMAIN calls : calls[n][1] = i - 1
        THEN Some(Call(f, i - 1, vec[i][1]))
        ELSE vec[i]]

\* ZippedQuery2::for_each_mut: val1 is a &mut into container1, val2 a & into
\* container2; f(i, ref1, ref2) when both are Some.  The outcome carries the
\* operands as the scan leaves them.
ZippedQuery2_for_each_mut_both(z, g1, g2, f) ==
    LET o == ZippedQuery2_for_each(z, g1, g2) IN
    [panic |-> FALSE, calls |-> o.calls, visited |-> o.visited, oob |-> o.oob,
     operands |-> <<Written(z.container1, o.calls, f),
                    Written(z.container2, o.calls, f)>>]

ZippedQuery2_for_each_mut(z, g1, g2, f) ==
    LET o == ZippedQuery2_for_each(z, g1, g2) IN
    [panic |-> FALSE, calls |-> o.calls, visited |-> o.visited, oob |-> o.oob,
     operands |-> <<Written(z.container1, o.calls, f), z.container2>>]

\* zip(container1, container2).for_each_mut(f)
zip_for_each_mut(c1, c2, f) ==
    LET z == ZippedQuery2_new(c1, c2) IN
    IF z.panic
    THEN {[panic |-> TRUE, calls |-> <<>>, visited |-> <<>>, oob |-> FALSE,
           operands |-> <<c1.container, c2.container>>]}
    ELSE {ZippedQuery2_for_each_mut(z, g1, g2, f) :
             g1 \in Garbage(z.container1, z.len), g2 \in Garbage(z.container2, z.len)}

\* ZippedQuery3::for_each_mut: val1 is a &mut into container1, val2 and val3
\* are & into container2 and container3
ZippedQuery3_for_each_mut(z, g3, f) ==
    LET o == ZippedQuery3_for_each(z, g3) IN
    [panic |-> FALSE, calls |-> o.calls, visited |-> o.visited, oob |-> o.oob,
     operands |-> <<Written(z.container1, o.calls, f), z.container2, z.container3>>]

\* zip3(container1, container2, container3).for_each_mut(f)
zip3_for_each_mut(c1, c2, c3, f) ==
    LET z == ZippedQuery3_new(c1, c2, c3) IN
    IF z.panic
    THEN {[panic |-> TRUE, calls |-> <<>>, visited |-> <<>>, oob |-> FALSE,
           operands |-> <<c1.container, c2.container, c3.container>>]}
    ELSE {ZippedQuery3_for_each_mut(z, g3, f) : g3 \in Garbage(z.container3, z.len)}

(***************************************************************************)
(* World<WC> and the WorldContainer registries.                            *)
(***************************************************************************)
\* WorldContainer::add_entity: the broadcast to every field of the registry.
WorldContainer_add_entity_first_field(cs, entity) ==
    LET dense == {k \in DOMAIN cs : cs[k].kind \in {"dense", "vec"}}
        first == IF dense = {} THEN {} ELSE {CHOOSE k \in dense : TRUE}
    IN  [k \in DOMAIN cs |-> IF k \in first THEN add_entity(cs[k], entity) ELSE cs[k]]

WorldContainer_add_entity_next(cs, entity) ==
    [k \in DOMAIN cs |-> add_entity(cs[k], Entity_new(entity.index + 1))]

WorldContainer_add_entity(cs, entity) ==
    [k \in DOMAIN cs |-> add_entity(cs[k], entity)]

NeverWritten(cs) == [k \in DOMAIN cs |-> [i \in {} |-> 0]]

\* The value of the latest set of kind k that returned normally for index i.
LastSet(k, i) == IF i \in DOMAIN written[k] THEN Some(written[k][i]) ELSE None

Recorded(w, k, index, component) ==
    [w EXCEPT ![k] = [i \in DOMAIN w[k] \cup {index} |->
                         IF i = index THEN component ELSE w[k][i]]]

\* World::new(): last_entity: 0, containers: WC::new()
World_new(registry) ==
    /\ last_entity = 0
    /\ containers = registry
    /\ halted = FALSE
    /\ last = NoOp
    /\ written = NeverWritten(registry)
    /\ spawned = {}

\* `self.last_entity += 1` at usize::MAX: a build with overflow checks panics
\* there, a build without them wraps to 0.
Builds == {"overflow-checks", "wrapping"}

\* World::spawn(): Entity::new(last_entity); last_entity += 1; broadcast.
World_spawn ==
    /\ ~halted
    /\ \E build \in Builds :
        LET entity   == Entity_new(last_entity)
            overflow == last_entity = USIZE_MAX
            panic    == overflow /\ build = "overflow-checks"
        IN  /\ halted' = panic
            /\ last_entity' = IF panic THEN last_entity
                              ELSE (last_entity + 1) % (2 ^ UsizeBits)
            /\ containers' = IF panic THEN containers
                             ELSE WorldContainer_add_entity(containers, entity)
            /\ spawned' = IF panic THEN spawned ELSE spawned \cup {entity.index}
            /\ last' = [NoOp EXCEPT !.op = "spawn", !.e = entity.index,
                                    !.ret = IF panic THEN None ELSE Some(entity.index)]
    /\ UNCHANGED written

\* World::add(entity, component): get_components_mut().set(entity, component)
World_add(k, index, component) ==
    /\ ~halted
    /\ LET r == set(containers[k], Entity_new(index), component) IN
        /\ halted' = r.panic
        /\ containers' = [containers EXCEPT ![k] = r.c]
        /\ written' = IF r.panic THEN written
                      ELSE Recorded(written, k, index, component)
    /\ last' = [NoOp EXCEPT !.op = "add", !.c = <<k>>, !.e = index,
                            !.ret = Some(component), !.old = LastSet(k, index)]
    /\ UNCHANGED <<last_entity, spawned>>

\* world.get_mut::<C>().add_entity(entity): growth of one container by hand.
Container_add_entity(k, index) ==
    /\ ~halted
    /\ containers[k].kind \in {"dense", "vec", "linked"} => index < MaxEntities
    /\ containers' = [containers EXCEPT ![k] = add_entity(containers[k], Entity_new(index))]
    /\ last' = [NoOp EXCEPT !.op = "add_entity", !.c = <<k>>, !.e = index]
    /\ UNCHANGED <<last_entity, halted, written, spawned>>

\* world.get::<C>().get(entity)
Container_get(k, index) ==
    /\ ~halted
    /\ last' = [NoOp EXCEPT !.op = "get", !.c = <<k>>, !.e = index,
                            !.ret = get(containers[k], Entity_new(index))]
    /\ UNCHANGED <<last_entity, containers, halted, written, spawned>>

\* world.get::<C>().for_each(f)
Container_for_each(k) ==
    /\ ~halted
    /\ \E calls \in for_each(containers[k]) :
         last' = [NoOp EXCEPT !.op = "for_each", !.c = <<k>>, !.calls = calls]
    /\ UNCHANGED <<last_entity, containers, halted, written, spawned>>

\* zip(a, b).for_each(f) over two containers of the world
Zip_for_each(A, B) ==
    /\ ~halted
    /\ \E o \in zip_for_each(containers[A], containers[B]) :
         /\ last' = [NoOp EXCEPT !.op = "zip", !.c = <<A, B>>, !.calls = o.calls,
                                 !.visited = o.visited, !.oob = o.oob]
         /\ halted' = o.panic
    /\ UNCHANGED <<last_entity, containers, written, spawned>>

\* zip3(a, b, c).for_each(f) over three containers of the world
Zip3_for_each(A, B, C) ==
    /\ ~halted
    /\ \E o \in zip3_for_each(containers[A], containers[B], containers[C]) :
         /\ last' = [NoOp EXCEPT !.op = "zip3", !.c = <<A, B, C>>, !.calls = o.calls,
                                 !.visited = o.visited, !.oob = o.oob]
         /\ halted' = o.panic
    /\ UNCHANGED <<last_entity, containers, written, spawned>>

\* the world after a mutable join over the registry fields ks: every operand
\* holds what the scan left in it
Joined(cs, ks, operands) ==
    [k \in DOMAIN cs |->
        IF \E n \in DOMAIN ks : ks[n] = k
        THEN [cs[k] EXCEPT !.container =
                 operands[CHOOSE n \in DOMAIN ks : ks[n] = k]]
        ELSE cs[k]]

\* the components the world holds after a for_each_mut, slot by slot
Rewritten(w, cs, ks) ==
    [k \in DOMAIN w |->
        IF \E n \in DOMAIN ks : ks[n] = k
        THEN [i \in DOMAIN w[k] |->
                 IF i < Len(cs[k].container) /\ cs[k].container[i + 1] # None
                 THEN cs[k].container[i + 1][1] ELSE w[k][i]]
        ELSE w[k]]

\* zip(a, b).for_each_mut(f) over two containers of the world
Zip_for_each_mut(A, B, f) ==
    /\ ~halted
    /\ \E o \in zip_for_each_mut(containers[A], containers[B], f) :
         /\ last' = [NoOp EXCEPT !.op = "zip_mut", !.c = <<A, B>>, !.calls = o.calls,
                                 !.visited = o.visited, !.oob = o.oob,
                                 !.ret = Some(f)]
         /\ halted' = o.panic
         /\ containers' = Joined(containers, <<A, B>>, o.operands)
         /\ written' = Rewritten(written, Joined(containers, <<A, B>>, o.operands),
                                 <<A, B>>)
    /\ UNCHANGED <<last_entity, spawned>>

\* zip3(a, b, c).for_each_mut(f) over three containers of the world
Zip3_for_each_mut(A, B, C, f) ==
    /\ ~halted
    /\ \E o \in zip3_for_each_mut(containers[A], containers[B], containers[C], f) :
         /\ last' = [NoOp EXCEPT !.op = "zip3_mut", !.c = <<A, B, C>>,
                                 !.calls = o.calls, !.visited = o.visited,
                                 !.oob = o.oob, !.ret = Some(f)]
         /\ halted' = o.panic
         /\ containers' = Joined(containers, <<A, B, C>>, o.operands)
         /\ written' = Rewritten(written, Joined(containers, <<A, B, C>>, o.operands),
                                 <<A, B, C>>)
    /\ UNCHANGED <<last_entity, spawned>>

(***************************************************************************)
(* query.rs: the Query dispatcher.  Every operator yields the set of       *)
(* outcomes the call can have (one per bucket order of a hashed operand    *)
(* that is iterated).  The debug assertions of cast_to_vec_container and   *)
(* validate_container compare lengths with usize::MAX / 4 and / 2, which   *)
(* no vector that fits the memory reaches; they are left out.              *)
(***************************************************************************)
\* if entity_index == usize::MAX { None } else { Some(Entity::new(entity_index)) }
safe_entity_new(entity_index) ==
    IF entity_index = USIZE_MAX THEN None ELSE Some(Entity_new(entity_index))

Iterated(it) == [k \in 1 .. Len(it) |-> it[k][1]]

query_single_vec_container(container) ==
    {Outcome(FALSE, Vec_for_each_fast(container),
             [i \in 1 .. Len(container.container) |-> i - 1], FALSE)}

query_single_generic_container(container) ==
    {Outcome(FALSE, it, Iterated(it), FALSE) : it \in for_each(container)}

query_tuple_vec_containers(container_a, container_b) ==
    zip_for_each(container_a, container_b)

\* (*container_a_ptr).for_each(|entity_index, component_a| ...get(entity)...)
query_tuple_generic_containers_unprobed(container_a, container_b) ==
    {Outcome(FALSE,
             [k \in 1 .. Len(it) |-> <<it[k][1], <<it[k][2], it[k][2]>> >>],
             Iterated(it), FALSE)
     : it \in for_each(container_a)}

query_tuple_generic_containers(container_a, container_b) ==
    {LET hit == SelectSeq(it, LAMBDA x :
                    /\ safe_entity_new(x[1]) # None
                    /\ get(container_b, safe_entity_new(x[1])[1]) # None)
     IN  Outcome(FALSE,
                 [k \in 1 .. Len(hit) |->
                     <<hit[k][1],
                       <<hit[k][2],
                         get(container_b, safe_entity_new(hit[k][1])[1])[1]>> >>],
                 Iterated(it), FALSE)
     : it \in for_each(container_a)}

query_triple_vec_containers(container_a, container_b, container_c) ==
    zip3_for_each(container_a, container_b, container_c)

query_triple_generic_containers(container_a, container_b, container_c) ==
    {LET hit == SelectSeq(it, LAMBDA x :
                    /\ safe_entity_new(x[1]) # None
                    /\ get(container_b, safe_entity_new(x[1])[1]) # None
                    /\ get(container_c, safe_entity_new(x[1])[1]) # None)
     IN  Outcome(FALSE,
                 [k \in 1 .. Len(hit) |->
                     <<hit[k][1],
                       <<hit[k][2],
                         get(container_b, safe_entity_new(hit[k][1])[1])[1],
                         get(container_c, safe_entity_new(hit[k][1])[1])[1]>> >>],
                 Iterated(it), FALSE)
     : it \in for_each(container_a)}

\* impl Query for &A
Query1_for_each(cs, A) ==
    IF is_vec_container(cs[A])
    THEN query_single_vec_container(cs[A])
    ELSE query_single_generic_container(cs[A])

Query1_for_each_sparse(cs, A) == query_single_generic_container(cs[A])

\* impl Query for (&A, &B)
Query2_for_each(cs, A, B) ==
    IF is_vec_container(cs[A]) /\ is_vec_container(cs[B])
    THEN query_tuple_vec_containers(cs[A], cs[B])
    ELSE query_tuple_generic_containers(cs[A], cs[B])

Query2_for_each_sparse(cs, A, B) == query_tuple_generic_containers(cs[A], cs[B])

\* impl Query for (&A, &B, &C)
Query3_for_each(cs, A, B, C) ==
    IF is_vec_container(cs[A]) /\ is_vec_container(cs[B]) /\ is_vec_container(cs[C])
    THEN query_triple_vec_containers(cs[A], cs[B], cs[C])
    ELSE query_triple_generic_containers(cs[A], cs[B], cs[C])

Query3_for_each_sparse(cs, A, B, C) ==
    query_triple_generic_containers(cs[A], cs[B], cs[C])

\* <Q as Query<WC>>::for_each(&world, f) for Q of one, two or three kinds
Query_for_each(cs, kinds) ==
    CASE Len(kinds) = 1 -> Query1_for_each(cs, kinds[1])
      [] Len(kinds) = 2 -> Query2_for_each(cs, kinds[1], kinds[2])
      [] Len(kinds) = 3 -> Query3_for_each(cs, kinds[1], kinds[2], kinds[3])

Query_for_each_sparse(cs, kinds) ==
    CASE Len(kinds) = 1 -> Query1_for_each_sparse(cs, kinds[1])
      [] Len(kinds) = 2 -> Query2_for_each_sparse(cs, kinds[1], kinds[2])
      [] Len(kinds) = 3 -> Query3_for_each_sparse(cs, kinds[1], kinds[2], kinds[3])

Observe(op, kinds, o) ==
    [NoOp EXCEPT !.op = op, !.c = kinds, !.calls = o.calls,
                 !.visited = o.visited, !.oob = o.oob]

World_for_each(kinds) ==
    /\ ~halted
    /\ \E o \in Query_for_each(containers, kinds) :
         /\ last' = Observe("for_each", kinds, o)
         /\ halted' = o.panic
    /\ UNCHANGED <<last_entity, containers, written, spawned>>

World_for_each_sparse(kinds) ==
    /\ ~halted
    /\ \E o \in Query_for_each_sparse(containers, kinds) :
         /\ last' = Observe("for_each_sparse", kinds, o)
         /\ halted' = o.panic
    /\ UNCHANGED <<last_entity, containers, written, spawned>>

\* The tuples of one, two or three component kinds of a registry.
QueryKinds(cs) ==
    UNION {[1 .. n -> DOMAIN cs] : n \in 1 .. 3}

(***************************************************************************)
(* Spec: World::new, spawn, add and the queries over a registry.           *)
(***************************************************************************)
\* tests.rs MacroTestWorld: two VecComponentContainer fields
MacroTestWorld == [test_position |-> Vec_new, test_velocity |-> Vec_new]

\* world.rs MyWorldContainer: VecComponentContainer and HashComponentContainer
\* fields (one field of each type)
MyWorldContainer == [modulo1 |-> Vec_new, unique_hash |-> Hash_new]

\* a registry over the container types of container.rs
ContainerWorld == [dense |-> Dense_new, sparse |-> Sparse_new]

\* a registry of hashed containers only
SparseWorld == [sparse |-> Sparse_new, unique_hash |-> Hash_new]

Registries == {MacroTestWorld, MyWorldContainer, ContainerWorld, SparseWorld}

Init == \E registry \in Registries : World_new(registry)

Next ==
    \/ SpawnBound /\ World_spawn
    \/ \E k \in DOMAIN containers :
          \E i \in IndicesOf(containers[k]), v \in ValuesOf(k) : World_add(k, i, v)
    \/ Unobserved /\ \E kinds \in QueryKinds(containers) : World_for_each(kinds)
    \/ Unobserved /\ \E kinds \in QueryKinds(containers) : World_for_each_sparse(kinds)

Spec == Init /\ [][Next]_vars

(***************************************************************************)
(* SpecContainer: a world over one container of each variant in turn.      *)
(***************************************************************************)
Variants == {Dense_new, Sparse_new, Hash_new}

InitContainer == \E v \in Variants : World_new([k \in {"c"} |-> v])

NextContainer ==
    \/ SpawnBound /\ World_spawn
    \/ \E i \in IndicesOf(containers["c"]), v \in ValuesOf("c") : World_add("c", i, v)
    \/ \E i \in Indices : Container_add_entity("c", i)
    \/ Unobserved /\ \E i \in Indices : Container_get("c", i)
    \/ Unobserved /\ Container_for_each("c")

SpecContainer == InitContainer /\ [][NextContainer]_vars

Present(k, i) == get(containers[k], Entity_new(i)) # None

\* C1: in every container variant, get(E) returns Some(v) for the value v of
\* the most recent set(E, v), whatever add_entity / spawn calls and sets on
\* other entities were interleaved; a get call returns exactly that value.
C1_GetReturnsLastSet ==
    /\ \A k \in DOMAIN containers : \A i \in Indices :
          LastSet(k, i) # None =>
              get(containers[k], Entity_new(i)) = LastSet(k, i)
    /\ (last.op = "get" /\ LastSet(last.c[1], last.e) # None) =>
          last.ret = LastSet(last.c[1], last.e)

\* A set has just replaced a different value of an entity while another entity
\* holds a component, and get returns the new value.
C1_Witness ==
    /\ last.op = "add" /\ ~halted
    /\ last.old # None /\ last.old # last.ret
    /\ get(containers["c"], Entity_new(last.e)) = last.ret
    /\ \E j \in Indices \ {last.e} : LastSet("c", j) # None
    /\ containers["c"].kind = "dense"

\* C2: get(entity) is present exactly when set was called for the entity, and
\* no operation (spawn, add_entity, set, get, for_each) removes a component.
C2_PresentIffSetAndNeverRemoved ==
    /\ [](\A k \in DOMAIN containers : \A i \in Indices :
             Present(k, i) <=> LastSet(k, i) # None)
    /\ [][\A k \in DOMAIN containers : \A i \in Indices :
             Present(k, i) => Present(k, i)']_vars

\* An entity holds a component, another does not, and a spawn has just run.
C2_Witness ==
    /\ last.op = "spawn"
    /\ \E i, j \in Indices : Present("c", i) /\ ~Present("c", j)
    /\ containers["c"].kind = "dense"
    /\ Len(containers["c"].container) = MaxEntities

IsDense(k) == containers[k].kind \in {"dense", "vec"}

\* The callback invocations a query over `kinds` owes: one per index that
\* holds a component in every queried container, with the stored components
\* (the component itself for one kind, the tuple for two or three).
Matches(kinds) ==
    {i \in Indices : \A n \in DOMAIN kinds : Present(kinds[n], i)}

Stored(kinds, i) ==
    IF Len(kinds) = 1
    THEN get(containers[kinds[1]], Entity_new(i))[1]
    ELSE [n \in DOMAIN kinds |-> get(containers[kinds[n]], Entity_new(i))[1]]

Expected(kinds) == {<<i, Stored(kinds, i)>> : i \in Matches(kinds)}

Range(seq) == {seq[n] : n \in DOMAIN seq}

IsQuery == last.op \in {"for_each", "for_each_sparse"} /\ Len(last.c) >= 1

\* C5: a query over one, two or three kinds calls the callback exactly once
\* for each index that holds a component of every kind, for no other index,
\* and passes the components stored at that index.
C5_QueryCallsExactlyTheMatches ==
    (IsQuery /\ ~halted) =>
        /\ Range(last.calls) = Expected(last.c)
        /\ Len(last.calls) = Cardinality(Expected(last.c))

\* C4: once World::spawn has returned e, every dense container of the registry
\* has a slot for e.index, World::add(e, c) returns without a panic for every
\* registered kind, get(e) is empty for every kind not set yet, and the
\* broadcast of spawn leaves the sparse and hash containers as they were.
C4_SpawnCoversEveryContainer ==
    /\ [](/\ \A k \in DOMAIN containers : \A i \in spawned :
               /\ IsDense(k) => i < Len(containers[k].container)
               /\ LastSet(k, i) = None => get(containers[k], Entity_new(i)) = None
          /\ (last.op = "add" /\ last.e \in spawned) => ~halted)
    /\ [][(last'.op = "spawn" /\ last' # last) =>
             \A k \in DOMAIN containers :
                 ~IsDense(k) => containers'[k] = containers[k]]_vars

\* The last spawned entity has just received a component in one dense
\* container without a panic, holds none in the other container, and the
\* hash container of the registry is not empty.
C4_Witness ==
    /\ last.op = "add" /\ ~halted
    /\ last.e = last_entity - 1 /\ last_entity = MaxEntities
    /\ last.c = <<"modulo1">>
    /\ get(containers["modulo1"], Entity_new(last.e)) = last.ret
    /\ DOMAIN containers["unique_hash"].container # {}
    /\ get(containers["unique_hash"], Entity_new(last.e)) = None

(***************************************************************************)
(* SpecSpawn: a world whose registry holds hashed containers only.  Its    *)
(* spawn costs no memory, so the entity counter runs over all of usize.    *)
(***************************************************************************)
HashWorld == [unique_hash |-> Hash_new]

InitSpawn == World_new(HashWorld)

NextSpawn ==
    \/ World_spawn
    \/ \E i \in HashIndices, v \in ValuesOf("unique_hash") :
          World_add("unique_hash", i, v)

SpecSpawn == InitSpawn /\ [][NextSpawn]_vars

\* C3: World::spawn returns 0 on a new world and then the previous index plus
\* one: every index it returns is new and follows all the earlier ones.
C3_SpawnIndicesIncrease ==
    [][(last'.op = "spawn" /\ ~halted' /\ last' # last) =>
          /\ last'.e \notin spawned
          /\ spawned = 0 .. last'.e - 1]_vars

\* C7: over containers that all report themselves dense, Query::for_each (the
\* aligned scan) and Query::for_each_sparse (iterate the first container,
\* look the others up) make the same set of <<index, components>> calls.
C7_FastPathEqualsFallback ==
    (IsQuery /\ ~halted
        /\ \A n \in DOMAIN last.c : is_vec_container(containers[last.c[n]])) =>
        LET other == IF last.op = "for_each"
                     THEN Query_for_each_sparse(containers, last.c)
                     ELSE Query_for_each(containers, last.c)
        IN  \A o \in other : ~o.panic /\ Range(o.calls) = Range(last.calls)

\* The fast path has just joined two different dense containers: it called f
\* for one entity and scanned another that holds only one of the two kinds.
C7_Witness ==
    /\ last.op = "for_each" /\ ~halted
    /\ last.c = <<"test_position", "test_velocity">>
    /\ Len(last.calls) >= 1
    /\ \E i \in Indices : Present("test_position", i) /\ ~Present("test_velocity", i)

\* C8: a join of two or three containers, on the fast path and on the
\* fallback path, calls f exactly once for every index that holds a component
\* in all the joined containers, whatever index a container can hold.
C8_JoinNeverSkipsNorDuplicates ==
    (IsQuery /\ ~halted /\ Len(last.c) >= 2) =>
        \A i \in Matches(last.c) :
            Cardinality({n \in DOMAIN last.calls : last.calls[n][1] = i}) = 1

(***************************************************************************)
(* SpecZip: the three VecComponentContainers of main.rs MyWorld, grown one *)
(* by one by add_entity, under zip and zip3.                               *)
(***************************************************************************)
MyWorld == [positions |-> Vec_new, velocities |-> Vec_new, strongness |-> Vec_new]

\* The operands of a join: different containers of the world.
Pairs(cs) == {t \in [1 .. 2 -> DOMAIN cs] : t[1] # t[2]}

Triples(cs) == {t \in [1 .. 3 -> DOMAIN cs] : t[1] # t[2] /\ t[1] # t[3] /\ t[2] # t[3]}

InitZip == World_new(MyWorld)

NextZip ==
    \/ \E k \in DOMAIN containers, i \in Indices : Container_add_entity(k, i)
    \/ \E k \in DOMAIN containers :
          \E i \in Indices, v \in ValuesOf(k) : World_add(k, i, v)
    \/ Unobserved /\ \E t \in Pairs(containers) : Zip_for_each(t[1], t[2])
    \/ Unobserved /\ \E t \in Triples(containers) : Zip3_for_each(t[1], t[2], t[3])

SpecZip == InitZip /\ [][NextZip]_vars

Length(k) == Len(containers[k].container)

\* C9: zip3 panics whenever its three operands do not have the same length,
\* and its scan never reads an operand at or beyond the operand's length.
C9_Zip3FailsOnAnyLengthMismatch ==
    last.op = "zip3" =>
        /\ (\E m, n \in DOMAIN last.c : Length(last.c[m]) # Length(last.c[n])) => halted
        /\ ~last.oob

\* C10: zip panics, before any call of f, whenever its two operands differ in
\* length; otherwise it scans the indices 0 .. len - 1 of both, in order, and
\* reads within both operands.
C10_ZipFailsOnLengthMismatch ==
    last.op = "zip" =>
        IF Length(last.c[1]) # Length(last.c[2])
        THEN halted /\ last.calls = <<>> /\ last.visited = <<>>
        ELSE /\ ~halted /\ ~last.oob
             /\ last.visited = [i \in 1 .. Length(last.c[1]) |-> i - 1]
             /\ Len(last.visited) = Length(last.c[2])

\* zip has just panicked over operands of different lengths whose slots all
\* hold a component.
C10_Witness ==
    /\ last.op = "zip" /\ halted
    /\ Length(last.c[1]) = MaxEntities /\ Length(last.c[2]) = MaxEntities - 1
    /\ \A n \in 1 .. 2 : \A i \in 0 .. Length(last.c[n]) - 1 : Present(last.c[n], i)

(***************************************************************************)
(* SpecMain: main() of gba-ecs-test.  The loop adds ITERATIONS entities,   *)
(* a Position for each, a Velocity for the even ones and a Strongness for  *)
(* the multiples of 8; the joins then run over the three containers.       *)
(***************************************************************************)
ITERATIONS == 1000

\* One iteration of `for i in 0..ITERATIONS`: add_entity, then add_component
\* of Position { x: i }, Velocity { dy: i } and Strongness { value: i }.
\* w is the world: its counter, its containers, and the history of the run.
main_iteration(w, i) ==
    LET entity == Entity_new(w.last_entity)
        grown  == WorldContainer_add_entity(w.containers, entity)
        p      == set(grown["positions"], entity, i)
        v      == IF i % 2 = 0 THEN set(grown["velocities"], entity, i)
                  ELSE [panic |-> FALSE, c |-> grown["velocities"]]
        s      == IF i % 8 = 0 THEN set(grown["strongness"], entity, i)
                  ELSE [panic |-> FALSE, c |-> grown["strongness"]]
        w1     == Recorded(w.written, "positions", entity.index, i)
        w2     == IF i % 2 = 0 THEN Recorded(w1, "velocities", entity.index, i) ELSE w1
        w3     == IF i % 8 = 0 THEN Recorded(w2, "strongness", entity.index, i) ELSE w2
    IN  [last_entity |-> w.last_entity + 1,
         containers  |-> [positions |-> p.c, velocities |-> v.c, strongness |-> s.c],
         halted      |-> (p.panic \/ v.panic \/ s.panic),
         written     |-> w3,
         spawned     |-> w.spawned \cup {entity.index}]

\* The iterations lo .. hi - 1 of the loop, in order (the range is split in
\* two halves, run one after the other); a panic ends the run.
RECURSIVE main_for(_, _, _)
main_for(w, lo, hi) ==
    IF w.halted \/ lo >= hi THEN w
    ELSE IF hi = lo + 1 THEN main_iteration(w, lo)
    ELSE LET mid == (lo + hi) \div 2
         IN  main_for(main_for(w, lo, mid), mid, hi)

\* The world the loop leaves becomes the state.
main_done(w) ==
    /\ last_entity' = w.last_entity
    /\ containers' = w.containers
    /\ halted' = w.halted
    /\ written' = w.written
    /\ spawned' = w.spawned
    /\ last' = [NoOp EXCEPT !.op = "main_loop", !.e = w.last_entity - 1,
                            !.ret = Some(w.last_entity - 1)]

\* `for i in 0..ITERATIONS { .. }` on the new world
main_loop ==
    /\ ~halted /\ last.op = "none"
    /\ main_done(main_for([last_entity |-> last_entity, containers |-> containers,
                           halted |-> FALSE, written |-> written,
                           spawned |-> spawned], 0, ITERATIONS))

\* `if let Some(p) = positions.get(Entity::new(i))` and the same for
\* velocities, for an i of 0..ITERATIONS
main_get(k, i) ==
    /\ last.op # "none"
    /\ Container_get(k, i)

\* zip3(positions, velocities, strongness).for_each_mut(..) after the loop
main_zip3 ==
    /\ last.op # "none"
    /\ Zip3_for_each("positions", "velocities", "strongness")

\* the join of positions and velocities after the loop
main_zip ==
    /\ last.op # "none"
    /\ Zip_for_each("positions", "velocities")

InitMain == World_new(MyWorld)

NextMain ==
    \/ main_loop
    \/ Unobserved /\ \E k \in {"positions", "velocities"}, i \in 0 .. ITERATIONS - 1 :
                        main_get(k, i)
    \/ Unobserved /\ main_zip
    \/ Unobserved /\ main_zip3

SpecMain == InitMain /\ [][NextMain]_vars

\* C6: after main's loop, the join of positions and velocities calls f 500
\* times, the join of positions, velocities and strongness 125 times, and
\* every index the three-way join passes is a multiple of 8.
C6_MainJoinCounts ==
    /\ last.op = "zip" => (~halted /\ Len(last.calls) = 500)
    /\ last.op = "zip3" =>
          /\ ~halted /\ Len(last.calls) = 125
          /\ \A n \in DOMAIN last.calls : last.calls[n][1] % 8 = 0

\* The three-way join has run over the 1000 entities of main.
C6_Witness ==
    /\ last.op = "zip3" /\ ~halted
    /\ last_entity = ITERATIONS
    /\ Length("positions") = ITERATIONS
    /\ Len(last.calls) = 125

(***************************************************************************)
(* SpecAccess: a component container or a marker container, of each        *)
(* variant in turn, under every operation of its trait.                    *)
(***************************************************************************)
\* if let Some(c) = container.get_mut(entity) { *c = component }
Container_get_mut(k, index, component) ==
    /\ ~halted
    /\ LET r == get_mut(containers[k], Entity_new(index)) IN
        /\ containers' = IF r = None THEN containers
                         ELSE [containers EXCEPT ![k] = assign(containers[k], r[1], component)]
        /\ written' = IF r = None THEN written
                      ELSE Recorded(written, k, index, component)
        /\ last' = [NoOp EXCEPT !.op = "get_mut", !.c = <<k>>, !.e = index,
                                !.ret = IF r = None THEN None ELSE Some(component),
                                !.old = get(containers[k], Entity_new(index))]
    /\ UNCHANGED <<last_entity, halted, spawned>>

\* container.for_each_mut(f)
Container_for_each_mut(k, f) ==
    /\ ~halted
    /\ \E r \in for_each_mut(containers[k], f) :
         /\ containers' = [containers EXCEPT ![k] = r.c]
         /\ last' = [NoOp EXCEPT !.op = "for_each_mut", !.c = <<k>>, !.calls = r.calls,
                                 !.ret = Some(f)]
    /\ written' = [written EXCEPT ![k] =
                      [i \in DOMAIN written[k] |-> Call(f, i, written[k][i])]]
    /\ UNCHANGED <<last_entity, halted, spawned>>

\* marker.add_entity(entity)
Marker_add_entity(k, index) ==
    /\ ~halted
    /\ containers[k].kind = "dense_marker" => index < MaxEntities
    /\ containers' = [containers EXCEPT
                        ![k] = MarkerContainer_add_entity(containers[k], Entity_new(index))]
    /\ last' = [NoOp EXCEPT !.op = "add_entity", !.c = <<k>>, !.e = index]
    /\ UNCHANGED <<last_entity, halted, written, spawned>>

\* marker.set(entity)
Marker_set(k, index) ==
    /\ ~halted
    /\ LET r == MarkerContainer_set(containers[k], Entity_new(index)) IN
        /\ halted' = r.panic
        /\ containers' = [containers EXCEPT ![k] = r.c]
        /\ written' = IF r.panic THEN written ELSE Recorded(written, k, index, TRUE)
    /\ last' = [NoOp EXCEPT !.op = "mark", !.c = <<k>>, !.e = index,
                            !.old = Some(MarkerContainer_is_present(containers[k],
                                                                    Entity_new(index)))]
    /\ UNCHANGED <<last_entity, spawned>>

\* marker.is_present(entity)
Marker_is_present(k, index) ==
    /\ ~halted
    /\ last' = [NoOp EXCEPT !.op = "is_present", !.c = <<k>>, !.e = index,
                            !.ret = Some(MarkerContainer_is_present(containers[k],
                                                                    Entity_new(index)))]
    /\ UNCHANGED <<last_entity, containers, halted, written, spawned>>

\* marker.iter().collect()
Marker_iter(k) ==
    /\ ~halted
    /\ \E it \in MarkerContainer_iter(containers[k]) :
         last' = [NoOp EXCEPT !.op = "iter", !.c = <<k>>, !.visited = it]
    /\ UNCHANGED <<last_entity, containers, halted, written, spawned>>

MarkerVariants == {DenseMarker_new, SparseMarker_new}

InitAccess == \E v \in Variants \cup MarkerVariants : World_new([c |-> v])

IsMarker(k) == containers[k].kind \in {"dense_marker", "sparse_marker"}

NextAccess ==
    \/ ~IsMarker("c") /\ \E i \in Indices : Container_add_entity("c", i)
    \/ ~IsMarker("c") /\ \E i \in IndicesOf(containers["c"]), v \in ValuesOf("c") :
                             World_add("c", i, v)
    \/ ~IsMarker("c") /\ \E i \in IndicesOf(containers["c"]), v \in ValuesOf("c") :
                             Container_get_mut("c", i, v)
    \/ ~IsMarker("c") /\ \E f \in Callbacks : Container_for_each_mut("c", f)
    \/ ~IsMarker("c") /\ Unobserved /\ \E i \in Indices : Container_get("c", i)
    \/ ~IsMarker("c") /\ Unobserved /\ Container_for_each("c")
    \/ IsMarker("c") /\ \E i \in Indices : Marker_add_entity("c", i)
    \/ IsMarker("c") /\ \E i \in IndicesOf(containers["c"]) : Marker_set("c", i)
    \/ IsMarker("c") /\ Unobserved /\ \E i \in Indices : Marker_is_present("c", i)
    \/ IsMarker("c") /\ Unobserved /\ Marker_iter("c")

SpecAccess == InitAccess /\ [][NextAccess]_vars

IsDenseKind(k) == containers[k].kind \in {"dense", "dense_marker"}

\* C11: a set on a dense component or marker container at an index that
\* add_entity has not covered panics and leaves the container as it was: it
\* does not grow it, writes no slot, and does not return normally.
C11_DenseSetUncoveredHalts ==
    [][\A k \in DOMAIN containers :
          (/\ last'.op \in {"add", "mark"} /\ last'.c = <<k>>
           /\ ~halted /\ IsDenseKind(k) /\ last'.e >= Length(k))
          => (halted' /\ containers' = containers)]_vars

\* A set beyond the last slot of a dense component container that holds a
\* component has just panicked.
C11_Witness ==
    /\ halted /\ last.op = "add" /\ last.c = <<"c">>
    /\ containers["c"].kind = "dense"
    /\ last.e = Length("c") /\ Length("c") >= 1
    /\ Present("c", 0)

\* C12: get, get_mut and is_present for an entity no set has completed for
\* return None / false, do not panic and leave the container as it was,
\* whether the index is a covered empty slot or lies beyond the length.
C12_NeverSetReadsEmpty ==
    [][\A k \in DOMAIN containers :
          (/\ last'.op \in {"get", "get_mut", "is_present"} /\ last'.c = <<k>>
           /\ ~halted /\ LastSet(k, last'.e) = None)
          => /\ ~halted' /\ containers' = containers
             /\ last'.ret = IF last'.op = "is_present" THEN Some(FALSE) ELSE None]_vars

\* get_mut has just returned None for a covered, empty slot of a dense
\* container that holds a component in another slot.
C12_Witness ==
    /\ last.op = "get_mut" /\ last.ret = None /\ ~halted
    /\ containers["c"].kind = "dense"
    /\ last.e < Length("c") /\ LastSet("c", last.e) = None
    /\ \E j \in Indices : Present("c", j)

\* The empty slot of a dense container: None, or false in a marker.
EmptySlot(k) == IF containers[k].kind = "dense_marker" THEN FALSE ELSE None

\* C13: add_entity(e) on a dense container makes its length the larger of
\* the length before and e.index + 1, keeps the slots it had, appends empty
\* slots only, changes nothing when e.index is covered, and no operation
\* ever shortens a dense container.
C13_AddEntityGrowsToCover ==
    [][\A k \in DOMAIN containers : IsDenseKind(k) =>
          /\ Length(k)' >= Length(k)
          /\ (last'.op = "add_entity" /\ last'.c = <<k>> /\ ~halted) =>
                /\ Length(k)' = Max(Length(k), last'.e + 1)
                /\ \A i \in 1 .. Length(k)' :
                      containers'[k].container[i] =
                          IF i <= Length(k) THEN containers[k].container[i]
                          ELSE EmptySlot(k)
                /\ last'.e < Length(k) => containers' = containers]_vars

\* add_entity for the last index of the bound has just run on a dense
\* container that holds a component in slot 0 and none elsewhere.
C13_Witness ==
    /\ last.op = "add_entity" /\ ~halted
    /\ containers["c"].kind = "dense"
    /\ Length("c") = MaxEntities /\ last.e = MaxEntities - 1
    /\ Present("c", 0)
    /\ \A i \in 1 .. MaxEntities - 1 : ~Present("c", i)

\* C14: for_each on a dense container calls f once for every occupied slot,
\* with the component the slot holds, for no empty slot, and in strictly
\* ascending order of the index.
C14_DenseForEachAscending ==
    (last.op = "for_each" /\ containers[last.c[1]].kind = "dense") =>
        /\ Range(last.calls) = Expected(last.c)
        /\ \A m, n \in DOMAIN last.calls :
              m < n => last.calls[m][1] < last.calls[n][1]

\* for_each has just made two calls or more on a dense container.
C14_Witness ==
    /\ last.op = "for_each" /\ containers["c"].kind = "dense"
    /\ Len(last.calls) >= 2

IsHashed(k) == containers[k].kind \in {"sparse", "hash"}

\* C15: on a sparse or hash container no set panics, whatever the index and
\* without any add_entity; add_entity changes nothing; and for_each calls f
\* exactly once for each index a set was made for, with the value written
\* last.
C15_HashedSetAndForEach ==
    /\ [](\A k \in DOMAIN containers : IsHashed(k) =>
             /\ ~halted
             /\ (last.op = "for_each" /\ last.c = <<k>>) =>
                   /\ Range(last.calls) = {<<i, written[k][i]>> : i \in DOMAIN written[k]}
                   /\ Len(last.calls) = Cardinality(DOMAIN written[k]))
    /\ [][\A k \in DOMAIN containers :
             (IsHashed(k) /\ last'.op = "add_entity" /\ last'.c = <<k>>)
                 => containers' = containers]_vars

\* for_each has just visited a hash container that holds components at
\* index 0 and at usize::MAX.
C15_Witness ==
    /\ last.op = "for_each" /\ containers["c"].kind = "hash"
    /\ Len(last.calls) >= 2
    /\ \E n \in DOMAIN last.calls : last.calls[n] = <<USIZE_MAX, 2>>
    /\ \E n \in DOMAIN last.calls : last.calls[n] = <<0, 1>>

\* C16: in both marker variants is_present(e) is true exactly when a set(e)
\* has completed, and iter yields exactly the marked indices, each once,
\* however often an index was marked.
C16_MarkerPresenceAndIter ==
    \A k \in DOMAIN containers : IsMarker(k) =>
        /\ \A i \in Indices :
              MarkerContainer_is_present(containers[k], Entity_new(i))
                  <=> i \in DOMAIN written[k]
        /\ (last.op = "is_present" /\ last.c = <<k>>) =>
              last.ret = Some(last.e \in DOMAIN written[k])
        /\ (last.op = "iter" /\ last.c = <<k>>) =>
              /\ Range(last.visited) = DOMAIN written[k]
              /\ Len(last.visited) = Cardinality(DOMAIN written[k])

\* iter has just run over a dense marker container with a marked and an
\* unmarked slot.
C16_Witness ==
    /\ last.op = "iter" /\ containers["c"].kind = "dense_marker"
    /\ Len(last.visited) >= 1
    /\ Len(last.visited) < Length("c")

(***************************************************************************)
(* SpecLinked: one intrusive-linked container, grown and set by hand and   *)
(* read by get, by the positional for_each and by for_each_sparse (the     *)
(* container tests of main.rs).                                            *)
(***************************************************************************)
\* container.for_each_sparse(f).  A walk caught in a cycle never returns, so
\* nothing runs after it.
Container_for_each_sparse(k) ==
    /\ ~halted
    /\ LET r == Linked_for_each_sparse(containers[k]) IN
        /\ last' = [NoOp EXCEPT !.op = "for_each_sparse", !.c = <<k>>,
                                !.calls = r.calls, !.hang = r.hang]
        /\ halted' = r.hang
    /\ UNCHANGED <<last_entity, containers, written, spawned>>

InitLinked == World_new([c |-> Linked_new])

NextLinked ==
    \/ \E i \in Indices : Container_add_entity("c", i)
    \/ \E i \in Indices, v \in ValuesOf("c") : World_add("c", i, v)
    \/ Unobserved /\ \E i \in Indices : Container_get("c", i)
    \/ Unobserved /\ Container_for_each("c")
    \/ Unobserved /\ Container_for_each_sparse("c")

SpecLinked == InitLinked /\ [][NextLinked]_vars

IsLinked(k) == containers[k].kind = "linked"

\* the indices for_each_sparse visits, in the order of its calls
Visits(calls) == [n \in DOMAIN calls |-> calls[n][1]]

\* s without its elements equal to i
Without(s, i) == SelectSeq(s, LAMBDA j : j # i)

\* C17: for_each_sparse visits exactly the occupied slots, each once, most
\* recently set first (a set puts its entity in front of the others), and in
\* every reachable state the walk from head along next ends at an empty link.
C17_SparseTraversalReverseOfSets ==
    /\ [](\A k \in DOMAIN containers : IsLinked(k) =>
             /\ ~Linked_for_each_sparse(containers[k]).hang
             /\ (last.op = "for_each_sparse" /\ last.c = <<k>>) =>
                   /\ Range(Visits(last.calls)) = {i \in Indices : Present(k, i)}
                   /\ Len(last.calls) = Cardinality({i \in Indices : Present(k, i)})
                   /\ \A n \in DOMAIN last.calls :
                         Some(last.calls[n][2]) = LastSet(k, last.calls[n][1]))
    /\ [][\A k \in DOMAIN containers :
             (IsLinked(k) /\ last'.op = "add" /\ last'.c = <<k>> /\ ~halted')
                 => Visits(Linked_for_each_sparse(containers[k])'.calls)
                      = <<last'.e>> \o Without(Visits(Linked_for_each_sparse(containers[k]).calls),
                                               last'.e)]_vars

\* C18: after any sequence of set calls, for_each_sparse returns and has
\* visited each entity that was set exactly once: as many calls as there are
\* distinct entities set, however often each was set.
C18_ReSetKeepsTheList ==
    \A k \in DOMAIN containers :
        (IsLinked(k) /\ last.op = "for_each_sparse" /\ last.c = <<k>>) =>
            /\ ~last.hang
            /\ Len(last.calls) = Cardinality(DOMAIN written[k])
            /\ Range(Visits(last.calls)) = DOMAIN written[k]

(***************************************************************************)
(* SpecFrame: main.rs MyWorld, grown by spawn, under every traversal and    *)
(* join: the container for_each, the queries, zip / zip3 and their         *)
(* for_each_mut.                                                           *)
(***************************************************************************)
\* the queries made of the world: over one, two and three kinds
FrameKinds ==
    {<<"positions">>, <<"velocities", "positions">>,
     <<"positions", "velocities", "strongness">>}

\* the operands of a for_each_mut join: positions is the operand written to
\* (main.rs: zip3(positions, velocities, strongness).for_each_mut)
MutPairs(cs) == {t \in Pairs(cs) : t[1] = "positions"}

MutTriples(cs) == {t \in Triples(cs) : t[1] = "positions"}

NextFrame ==
    \/ SpawnBound /\ World_spawn
    \/ \E k \in DOMAIN containers :
          \E i \in Indices, v \in ValuesOf(k) : World_add(k, i, v)
    \/ Unobserved /\ \E k \in DOMAIN containers : Container_for_each(k)
    \/ Unobserved /\ \E kinds \in FrameKinds : World_for_each(kinds)
    \/ Unobserved /\ \E kinds \in FrameKinds : World_for_each_sparse(kinds)
    \/ Unobserved /\ \E t \in Pairs(containers) : Zip_for_each(t[1], t[2])
    \/ Unobserved /\ \E t \in Triples(containers) : Zip3_for_each(t[1], t[2], t[3])
    \/ \E t \in MutPairs(containers), f \in Callbacks :
          Zip_for_each_mut(t[1], t[2], f)
    \/ \E t \in MutTriples(containers), f \in Callbacks :
          Zip3_for_each_mut(t[1], t[2], t[3], f)

SpecFrame == InitZip /\ [][NextFrame]_vars

\* the slots of a container that hold a component
Occupancy(c) == {i \in DOMAIN c.container : c.container[i] # None}

\* C19: a read-only traversal or join (container for_each, Query::for_each,
\* Query::for_each_sparse, zip / zip3 for_each) leaves every container as it
\* was; a for_each_mut join leaves the length and the occupancy of every
\* container as they were and changes values in its first operand only.
C19_TraversalsFrame ==
    [][/\ last'.op \in {"for_each", "for_each_sparse", "zip", "zip3"}
            => containers' = containers
       /\ last'.op \in {"zip_mut", "zip3_mut"}
            => \A k \in DOMAIN containers :
                  /\ Len(containers'[k].container) = Len(containers[k].container)
                  /\ Occupancy(containers'[k]) = Occupancy(containers[k])
                  /\ k # last'.c[1] => containers'[k] = containers[k]]_vars

\* a for_each_mut join has just changed a component of its first operand.
C19_Witness ==
    /\ last.op \in {"zip_mut", "zip3_mut"}
    /\ \E n \in DOMAIN last.calls :
          containers[last.c[1]].container[last.calls[n][1] + 1]
              # Some(last.calls[n][2][1])

\* C20: for_each_mut calls f exactly once on each occupied slot and on no
\* other; afterwards get returns for each of them what f left there and None
\* for the slots that were empty; a component written through get_mut is what
\* get returns from then on; and every get returns the component written
\* last, by set, get_mut or a for_each_mut callback.
C20_MutationsAreVisible ==
    /\ [](\A k \in DOMAIN containers : ~IsMarker(k) =>
             /\ \A i \in Indices : get(containers[k], Entity_new(i)) = LastSet(k, i)
             /\ (last.op = "get" /\ last.c = <<k>>) => last.ret = LastSet(k, last.e))
    /\ [][\A k \in DOMAIN containers :
             /\ (~IsMarker(k) /\ last'.op = "for_each_mut" /\ last'.c = <<k>>) =>
                   /\ Range(last'.calls) =
                         {<<i, get(containers[k], Entity_new(i))[1]>> :
                             i \in {j \in Indices : Present(k, j)}}
                   /\ Len(last'.calls) = Cardinality({j \in Indices : Present(k, j)})
                   /\ \A i \in Indices :
                         get(containers'[k], Entity_new(i)) =
                            IF Present(k, i)
                            THEN Some(Call(last'.ret[1], i,
                                           get(containers[k], Entity_new(i))[1]))
                            ELSE None
             /\ (~IsMarker(k) /\ last'.op = "get_mut" /\ last'.c = <<k>>) =>
                   \A i \in Indices :
                       get(containers'[k], Entity_new(i)) =
                          IF i = last'.e /\ Present(k, i) THEN last'.ret
                          ELSE get(containers[k], Entity_new(i))]_vars

\* for_each_mut has just changed the component of an occupied slot of a dense
\* container that also has an empty slot.
C20_Witness ==
    /\ last.op = "for_each_mut" /\ containers["c"].kind = "dense"
    /\ Len(last.calls) >= 1 /\ Len(last.calls) < Length("c")
    /\ \E n \in DOMAIN last.calls :
          get(containers["c"], Entity_new(last.calls[n][1])) # Some(last.calls[n][2])

\* C21: a query of two kinds whose first container is dense (a Vec) and
\* whose second is a HashComponentContainer does not panic, iterates the
\* occupied slots of the first (the fallback path) and calls f exactly for
\* the indices that hold both components, in ascending order of the index,
\* with the components stored.
C21_VecHashFallback ==
    (/\ last.op = "for_each" /\ Len(last.c) = 2
     /\ IsDense(last.c[1]) /\ containers[last.c[2]].kind = "hash") =>
        /\ ~halted
        /\ last.visited = Iterated(Dense_for_each(containers[last.c[1]]))
        /\ Range(last.calls) = Expected(last.c)
        /\ Len(last.calls) = Cardinality(Expected(last.c))
        /\ \A m, n \in DOMAIN last.calls :
              m < n => last.calls[m][1] < last.calls[n][1]

\* the query over Modulo1 (Vec) and Unique2 (hash) has just called f for an
\* entity that holds both and passed over one that holds Modulo1 only.
C21_Witness ==
    /\ last.op = "for_each" /\ last.c = <<"modulo1", "unique_hash">>
    /\ Len(last.calls) >= 1
    /\ \E i \in Indices : Present("modulo1", i) /\ ~Present("unique_hash", i)

\* the number of active entries of a container: the indices that hold a
\* component
Active(k) == Cardinality({i \in Indices : Present(k, i)})

\* a join of two or three kinds that went the fallback / sparse way
OnFallback ==
    /\ IsQuery /\ Len(last.c) >= 2
    /\ \/ last.op = "for_each_sparse"
       \/ \E n \in DOMAIN last.c : ~is_vec_container(containers[last.c[n]])

\* C22: on the fallback / sparse path of a join the operand that is iterated
\* is one with the fewest active entries of all the operands: the join
\* iterates no more entries than the smallest operand holds.
C22_FallbackIteratesFewest ==
    (OnFallback /\ ~halted) =>
        \A n \in DOMAIN last.c : Len(last.visited) <= Active(last.c[n])

(***************************************************************************)
(* SpecGrow: one container (dense, dense marker or hash) in a world, grown *)
(* by spawn and by add_entity at every index up to usize::MAX.  A world of *)
(* a hash container spawns over all of usize; a dense one up to            *)
(* MaxEntities.                                                            *)
(***************************************************************************)
\* while self.container.len() <= entity.index { push }: for usize::MAX the
\* condition holds for every length a Vec can have, so the loop ends only
\* when a push fails (capacity overflow), which is fatal.
add_entity_exhausts(c, entity) ==
    c.kind \in {"dense", "dense_marker"} /\ entity.index = USIZE_MAX

\* container.add_entity(entity), for every entity index
Grow_add_entity(k, index) ==
    /\ ~halted
    /\ LET c == containers[k]
           entity == Entity_new(index)
       IN  /\ halted' = add_entity_exhausts(c, entity)
           /\ containers' =
                 IF add_entity_exhausts(c, entity) THEN containers
                 ELSE [containers EXCEPT ![k] =
                          IF c.kind \in {"dense_marker", "sparse_marker"}
                          THEN MarkerContainer_add_entity(c, entity)
                          ELSE add_entity(c, entity)]
    /\ last' = [NoOp EXCEPT !.op = "add_entity", !.c = <<k>>, !.e = index]
    /\ UNCHANGED <<last_entity, written, spawned>>

GrowVariants == {Dense_new, DenseMarker_new, Hash_new}

InitGrow == \E v \in GrowVariants : World_new([c |-> v])

NextGrow ==
    \/ ~IsMarker("c") /\ (IsHashed("c") \/ SpawnBound) /\ World_spawn
    \/ \E i \in Indices : Grow_add_entity("c", i)
    \/ containers["c"].kind = "dense" /\ \E i \in Indices, v \in ValuesOf("c") :
                                            World_add("c", i, v)
    \/ IsMarker("c") /\ \E i \in Indices : Marker_set("c", i)
    \/ ~IsMarker("c") /\ Unobserved /\ \E i \in Indices : Container_get("c", i)
    \/ IsMarker("c") /\ Unobserved /\ \E i \in Indices : Marker_is_present("c", i)

SpecGrow == InitGrow /\ [][NextGrow]_vars

\* C23: growth at the largest index is checked: a spawn when the counter is
\* usize::MAX, and an add_entity of a dense container at usize::MAX, halt and
\* leave the counter and the container as they were; the counter and the
\* lengths never go down.
C23_GrowthAtMaxIndexHalts ==
    [][/\ (last'.op = "spawn" /\ last_entity = USIZE_MAX)
            => halted' /\ last_entity' = last_entity
       /\ (last'.op = "add_entity" /\ last'.e = USIZE_MAX /\ IsDenseKind(last'.c[1]))
            => halted' /\ containers' = containers
       /\ last_entity' >= last_entity
       /\ \A k \in DOMAIN containers :
             IsDenseKind(k) => Len(containers'[k].container) >= Len(containers[k].container)
      ]_vars

\* the links of an intrusive-linked container are consistent: the walk from
\* head ends, passes every occupied slot once, the head has no prev, the last
\* node no next, and neighbours in the walk point at each other
WellLinked(c) ==
    LET r == Linked_for_each_sparse(c)
        s == Visits(r.calls)
        node(i) == c.container[i + 1][1]
    IN  /\ ~r.hang
        /\ Range(s) = {i \in 0 .. Len(c.container) - 1 : c.container[i + 1] # None}
        /\ Len(s) = Cardinality(Range(s))
        /\ (c.head = None) <=> (s = <<>>)
        /\ s # <<>> => /\ c.head = Some(s[1])
                       /\ node(s[1]).prev = None
                       /\ node(s[Len(s)]).next = None
        /\ \A j \in 1 .. Len(s) - 1 :
              /\ node(s[j]).next = Some(s[j + 1])
              /\ node(s[j + 1]).prev = Some(s[j])

\* C24: the links stay consistent while components are set on distinct
\* entities: a container nothing was set in is consistent; on a consistent
\* list, add_entity changes nothing of it, and the set of an entity that holds
\* no component makes that entity the head (prev empty), with the old head as
\* its next and itself as the old head's prev, the rest of the list as it was:
\* after e1..en the head is en, each next is the index set just before, each
\* prev the index set just after, and the next of e1 is empty.
C24_LinksConsistent ==
    /\ [](\A k \in DOMAIN containers :
             (IsLinked(k) /\ DOMAIN written[k] = {}) => WellLinked(containers[k]))
    /\ [][\A k \in DOMAIN containers :
             (IsLinked(k) /\ WellLinked(containers[k]) /\ last'.c = <<k>> /\ ~halted') =>
                 /\ last'.op = "add_entity" =>
                       /\ WellLinked(containers'[k])
                       /\ Linked_for_each_sparse(containers'[k])
                            = Linked_for_each_sparse(containers[k])
                 /\ (last'.op = "add" /\ ~Present(k, last'.e)) =>
                       /\ WellLinked(containers'[k])
                       /\ containers'[k].head = Some(last'.e)
                       /\ containers'[k].container[last'.e + 1][1].next
                            = containers[k].head
                       /\ Visits(Linked_for_each_sparse(containers'[k]).calls)
                            = <<last'.e>>
                                \o Visits(Linked_for_each_sparse(containers[k]).calls)]_vars

\* a second entity has just been set: it is the head and its next is the
\* entity set before it, whose prev points back at it.
C24_Witness ==
    /\ last.op = "add" /\ ~halted /\ last.old = None /\ IsLinked("c")
    /\ WellLinked(containers["c"])
    /\ Len(Linked_for_each_sparse(containers["c"]).calls) >= 2
    /\ containers["c"].head = Some(last.e)

\* C25: on one intrusive-linked container the positional scan (for_each) and
\* the traversal of the active subset (for_each_sparse) visit the same set of
\* occupied indices and make the same number of calls, whatever gaps lie
\* between the occupied indices: whichever of the two has just run, the other
\* one returns and agrees with it.
C25_DenseAndSparseTraversalsAgree ==
    \A k \in DOMAIN containers :
        (IsLinked(k) /\ last.c = <<k>> /\ last.op \in {"for_each", "for_each_sparse"}) =>
            LET dense == Linked_for_each(containers[k])
                sparse == Linked_for_each_sparse(containers[k])
            IN  /\ ~sparse.hang
                /\ Range(Visits(sparse.calls)) = Range(Visits(dense))
                /\ Len(sparse.calls) = Len(dense)
                /\ last.op = "for_each" => last.calls = dense
                /\ last.op = "for_each_sparse" => last.calls = sparse.calls

\* C26: in every state a world reaches through World::new, spawn and add,
\* every dense container of the registry has the length last_entity, the
\* number of spawn calls made, and no query panics: the equal-length
\* assertion of zip / zip3 holds for the containers of one world.
C26_DenseLengthsFollowSpawn ==
    /\ \A k \in DOMAIN containers :
          IsDense(k) => Len(containers[k].container) = last_entity
    /\ last_entity = Cardinality(spawned)
    /\ IsQuery => ~halted

\* a query over the two dense containers of a world has just run on the
\* aligned scan, after MaxEntities spawns and adds to both containers.
C26_Witness ==
    /\ last.op = "for_each" /\ last.c = <<"test_velocity", "test_position">>
    /\ last_entity = MaxEntities
    /\ Len(last.visited) = MaxEntities
    /\ Len(last.calls) >= 1

\* what get (is_present for a marker container) returns for index i
Reading(c, i) ==
    IF c.kind \in {"dense_marker", "sparse_marker"}
    THEN Some(MarkerContainer_is_present(c, Entity_new(i)))
    ELSE get(c, Entity_new(i))

\* C27: add_entity, and so World::spawn, leaves every slot of a dense
\* component container and every mark of a dense marker container as it was:
\* for every entity index, get / is_present returns after the call what it
\* returned before it.
C27_AddEntityKeepsSlots ==
    [][\A k \in DOMAIN containers :
          (IsDenseKind(k) /\ last'.op \in {"add_entity", "spawn"}) =>
              \A i \in Indices \cup (0 .. MaxEntities) :
                  Reading(containers'[k], i) = Reading(containers[k], i)]_vars

\* add_entity has just covered the last slot of a dense marker container that
\* holds a mark at another slot.
C27_Witness ==
    /\ last.op = "add_entity" /\ containers["c"].kind = "dense_marker"
    /\ Length("c") = MaxEntities /\ last.e = MaxEntities - 1
    /\ ~MarkerContainer_is_present(containers["c"], Entity_new(last.e))
    /\ \E i \in Indices : MarkerContainer_is_present(containers["c"], Entity_new(i))

\* C28: World::add(e, c) for the kind K changes the slot of e in the container
\* of K and nothing else: the entity counter, the containers of the other
\* kinds, the components of the other entities in the container of K and the
\* length of a dense container stay as they were; when it returns, the slot
\* of e holds c.
C28_AddChangesOneSlot ==
    [][last'.op = "add" =>
          /\ last_entity' = last_entity
          /\ spawned' = spawned
          /\ \A k \in DOMAIN containers \ {last'.c[1]} : containers'[k] = containers[k]
          /\ \A i \in (Indices \cup HashIndices) \ {last'.e} :
                get(containers'[last'.c[1]], Entity_new(i))
                    = get(containers[last'.c[1]], Entity_new(i))
          /\ IsDense(last'.c[1]) =>
                Len(containers'[last'.c[1]].container)
                    = Len(containers[last'.c[1]].container)
          /\ ~halted' =>
                get(containers'[last'.c[1]], Entity_new(last'.e)) = last'.ret]_vars

\* add has just written a component of the hash container of a world that
\* holds another entity of that kind and a component in another container.
C28_Witness ==
    /\ last.op = "add" /\ ~halted /\ last.c = <<"unique_hash">>
    /\ \E i \in HashIndices \ {last.e} : Present("unique_hash", i)
    /\ \E k \in DOMAIN containers \ {"unique_hash"} : \E i \in Indices : Present(k, i)

(***************************************************************************)
(* SpecTrio: a DenseComponentContainer, a SparseComponentContainer and a   *)
(* HashComponentContainer driven by the same calls of add_entity, set, get *)
(* and for_each, every set at an index add_entity has covered.             *)
(***************************************************************************)
TrioWorld == [dense |-> Dense_new, sparse |-> Sparse_new, hash |-> Hash_new]

Trio == <<"dense", "sparse", "hash">>

\* the index is below the length add_entity gave the dense container
Covered(index) == index < Len(containers["dense"].container)

\* add_entity(entity) on each of the three
Trio_add_entity(index) ==
    /\ ~halted
    /\ index < MaxEntities
    /\ containers' = [k \in DOMAIN containers |->
                         add_entity(containers[k], Entity_new(index))]
    /\ last' = [NoOp EXCEPT !.op = "add_entity", !.c = Trio, !.e = index]
    /\ UNCHANGED <<last_entity, halted, written, spawned>>

\* set(entity, component) on each of the three
Trio_set(index, component) ==
    /\ ~halted
    /\ Covered(index)
    /\ LET r == [k \in DOMAIN containers |->
                    set(containers[k], Entity_new(index), component)]
       IN  /\ halted' = \E k \in DOMAIN containers : r[k].panic
           /\ containers' = [k \in DOMAIN containers |-> r[k].c]
    /\ written' = [k \in DOMAIN written |-> Recorded(written, k, index, component)[k]]
    /\ last' = [NoOp EXCEPT !.op = "add", !.c = Trio, !.e = index,
                            !.ret = Some(component)]
    /\ UNCHANGED <<last_entity, spawned>>

\* get(entity) on each of the three: ret holds the three results
Trio_get(index) ==
    /\ ~halted
    /\ last' = [NoOp EXCEPT !.op = "get", !.c = Trio, !.e = index,
                            !.ret = [n \in 1 .. 3 |->
                                        get(containers[Trio[n]], Entity_new(index))]]
    /\ UNCHANGED <<last_entity, containers, halted, written, spawned>>

\* for_each(f) on each of the three: calls holds the three sequences of calls
Trio_for_each ==
    /\ ~halted
    /\ \E d \in for_each(containers["dense"]), s \in for_each(containers["sparse"]),
          h \in for_each(containers["hash"]) :
          last' = [NoOp EXCEPT !.op = "for_each", !.c = Trio, !.calls = <<d, s, h>>]
    /\ UNCHANGED <<last_entity, containers, halted, written, spawned>>

InitTrio == World_new(TrioWorld)

NextTrio ==
    \/ \E i \in Indices : Trio_add_entity(i)
    \/ \E i \in Indices, v \in Values : Trio_set(i, v)
    \/ Unobserved /\ \E i \in Indices : Trio_get(i)
    \/ Unobserved /\ Trio_for_each

SpecTrio == InitTrio /\ [][NextTrio]_vars

\* C29: under the same add_entity, set and get calls, every set at a covered
\* index, the dense, the sparse and the hash container cannot be told apart:
\* get returns the same for every entity, and for_each makes the same set of
\* <<index, component>> calls.
C29_VariantsEquivalent ==
    /\ ~halted
    /\ \A i \in Indices, k \in DOMAIN containers :
          get(containers[k], Entity_new(i)) = get(containers["dense"], Entity_new(i))
    /\ last.op = "get" => last.ret[2] = last.ret[1] /\ last.ret[3] = last.ret[1]
    /\ last.op = "for_each" =>
          /\ Range(last.calls[2]) = Range(last.calls[1])
          /\ Range(last.calls[3]) = Range(last.calls[1])
          /\ Len(last.calls[2]) = Len(last.calls[1])
          /\ Len(last.calls[3]) = Len(last.calls[1])

\* for_each has just run on the three containers, which hold the component 2
\* for an entity and nothing in another covered slot.
C29_Witness ==
    /\ last.op = "for_each"
    /\ Len(last.calls[1]) >= 1 /\ Len(last.calls[1]) < Len(containers["dense"].container)
    /\ \E n \in DOMAIN last.calls[3] : last.calls[3][n][2] = 2

\* C30: add_entity on a dense component or marker container returns for
\* every entity index, usize::MAX included, and has then appended exactly
\* max(0, index + 1 - length) empty slots behind the slots it had.
C30_AddEntityTerminates ==
    [][\A k \in DOMAIN containers :
          (IsDenseKind(k) /\ last'.op = "add_entity" /\ last'.c = <<k>>) =>
              /\ ~halted'
              /\ Length(k)' - Length(k) = Max(0, last'.e + 1 - Length(k))
              /\ \A i \in 1 .. Length(k)' :
                    containers'[k].container[i] =
                        IF i <= Length(k) THEN containers[k].container[i]
                        ELSE EmptySlot(k)]_vars

=============================================================================
